---- MODULE Spec2Model ----
(***************************************************************************)
(* Model of server.js: the POST /api/generate aggregation handler, the     *)
(* video search client getYouTubeResults and the web search client         *)
(* getWebResults.                                                          *)
(*                                                                         *)
(* Text that the code inspects character by character (the prompt, the     *)
(* completion text, a topic's Text) is a sequence of one-character         *)
(* strings; opaque text (URLs, ids, titles of videos) is a string.  A      *)
(* JavaScript object is a record, a property the object lacks is a field   *)
(* the record lacks, undefined/null is the empty tuple None.               *)
(***************************************************************************)
EXTENDS Naturals, Sequences, FiniteSets

VARIABLES
    env,             \* process.env after dotenv.config and the startup checks
    openai,          \* TRUE iff `new OpenAI(...)` succeeded at startup
    pc,              \* position of the handler: "idle", "awaiting", "done"
    req,             \* <<>> or <<request>>: the request being handled
    aiResponse,      \* promise of openai.chat.completions.create(...)
    axiosYT,         \* the axios.get of getYouTubeResults
    youtubeResults,  \* promise of getYouTubeResults(prompt)
    axiosWeb,        \* the axios.get of getWebResults
    webResults,      \* promise of getWebResults(prompt)
    res,             \* the responses sent for the request, in order
    calls            \* outbound calls issued for the request, per service

vars == <<env, openai, pc, req, aiResponse, axiosYT, youtubeResults,
          axiosWeb, webResults, res, calls>>

-----------------------------------------------------------------------------
(* Bounds of the model.                                                    *)

\* longest `items` list a video search response carries
MaxItems == 4
\* longest RelatedTopics list a web search response carries
MaxTopics == 5

-----------------------------------------------------------------------------
(* JavaScript values.                                                      *)

None == <<>>
Some(v) == <<v>>

\* String.prototype.trim's white space (a sample of it)
WhiteSpace == {" ", "\t", "\n"}

RECURSIVE TrimStart(_)
TrimStart(s) ==
    IF s = <<>> THEN s
    ELSE IF Head(s) \in WhiteSpace THEN TrimStart(Tail(s)) ELSE s

RECURSIVE TrimEnd(_)
TrimEnd(s) ==
    IF s = <<>> THEN s
    ELSE IF s[Len(s)] \in WhiteSpace THEN TrimEnd(SubSeq(s, 1, Len(s) - 1)) ELSE s

\* trim that forgets the trailing white space
Trim_StartOnly(s) == TrimStart(s)

\* s.trim()
Trim(s) == TrimEnd(TrimStart(s))

\* s.split(" - ")[0]: the text before the first " - ", all of s without one
RECURSIVE FirstSegment(_)
FirstSegment(s) ==
    IF Len(s) < 3 THEN s
    ELSE IF SubSeq(s, 1, 3) = <<" ", "-", " ">> THEN <<>>
    ELSE <<Head(s)>> \o FirstSegment(Tail(s))

\* encodeURIComponent, on the characters the prompts use
EncodeChar(c) == IF c = " " THEN "%20" ELSE c
encodeURIComponent(s) == [i \in 1..Len(s) |-> EncodeChar(s[i])]

\* array.slice(0, n)
Slice(s, n) == SubSeq(s, 1, IF Len(s) < n THEN Len(s) ELSE n)

-----------------------------------------------------------------------------
(* What the three services may answer.                                     *)

\* request bodies (req.body is the object bodyParser.json leaves): no prompt
\* property, an empty prompt, a prompt of white space, a prompt
Bodies ==
    { [user |-> "u"],
      [prompt |-> <<>>],
      [prompt |-> <<" ">>],
      [prompt |-> <<"h", " ", "i">>] }

\* process.env: the video credential unset, set to "", set
Envs ==
    { [OPENAI_API_KEY |-> "sk"],
      [OPENAI_API_KEY |-> "sk", YOUTUBE_API_KEY |-> ""],
      [OPENAI_API_KEY |-> "sk", YOUTUBE_API_KEY |-> "yk"] }

\* completion texts: empty, white space only, padded, plain
Contents ==
    { <<>>, <<" ", "\n">>, <<" ", "o", " ", "k", "\n">>, <<"o", "k">> }

\* chat completion objects: without choices, with no choice, with a choice
\* without message, with a message without content (null), with content
Completions ==
    { [id |-> "c"],
      [id |-> "c", choices |-> <<>>],
      [id |-> "c", choices |-> << [index |-> 0] >>],
      [id |-> "c", choices |-> << [index |-> 0, message |-> [role |-> "assistant"]] >>] }
    \cup { [id |-> "c", choices |->
              << [index |-> 0, message |-> [role |-> "assistant", content |-> c]] >>] :
           c \in Contents }

\* a search result item of the video service
Video(n) ==
    [id |-> [videoId |-> n],
     snippet |-> [title |-> "t", description |-> "d",
                  thumbnails |-> [medium |-> [url |-> "thumb"]]]]

\* an item without snippet
BadItem == [id |-> [videoId |-> "v"]]

RECURSIVE Videos(_)
Videos(n) == IF n = 0 THEN <<>> ELSE Append(Videos(n - 1), Video("v"))

\* response.data of the video service: without items, n items, a bad item
YouTubeData ==
    { [kind |-> "youtube#searchListResponse"] }
    \cup { [kind |-> "youtube#searchListResponse", items |-> Videos(n)] :
           n \in 0..MaxItems }
    \cup { [kind |-> "youtube#searchListResponse",
            items |-> <<Video("v"), BadItem>>] }

\* related topics: two with URL and text, one without URL, one with empty text
TopicA == [FirstURL |-> "https://a", Text |-> <<"A", " ", "-", " ", "x">>]
TopicB == [FirstURL |-> "https://b", Text |-> <<"B">>]
TopicNoURL == [Text |-> <<"C">>]
TopicNoText == [FirstURL |-> "https://d", Text |-> <<>>]

Topics == { TopicA, TopicB, TopicNoURL, TopicNoText }

TopicLists == UNION { [1..n -> Topics] : n \in 0..MaxTopics }

\* response.data of the web service: without RelatedTopics, or with a list
WebData ==
    { [Heading |-> "h"] }
    \cup { [Heading |-> "h", RelatedTopics |-> l] : l \in TopicLists }

\* the answers of the web service the handler is run against
WebAnswers ==
    { [Heading |-> "h"],
      [Heading |-> "h", RelatedTopics |-> <<>>],
      [Heading |-> "h", RelatedTopics |-> <<TopicA>>],
      [Heading |-> "h", RelatedTopics |-> <<TopicNoURL, TopicB, TopicNoText>>],
      [Heading |-> "h", RelatedTopics |-> <<TopicA, TopicB, TopicB, TopicA>>] }

-----------------------------------------------------------------------------
(* getYouTubeResults                                                       *)

\* a check for undefined only: an empty credential counts as set
NoYouTubeKey_UndefinedOnly(e) == "YOUTUBE_API_KEY" \notin DOMAIN e

\* !process.env.YOUTUBE_API_KEY
NoYouTubeKey(e) == "YOUTUBE_API_KEY" \notin DOMAIN e \/ e.YOUTUBE_API_KEY = ""

\* the params of the axios.get
YouTubeParams(e, query) ==
    [part |-> "snippet", maxResults |-> 3, key |-> e.YOUTUBE_API_KEY,
     q |-> query, type |-> "video"]

\* the map callback; reading a property of undefined throws
ItemThrows(item) == "snippet" \notin DOMAIN item

MapItem(item) ==
    [title |-> item.snippet.title,
     description |-> item.snippet.description,
     thumbnail |-> item.snippet.thumbnails.medium.url,
     videoId |-> item.id.videoId,
     url |-> "https://www.youtube.com/watch?v=" \o item.id.videoId]

\* response.data.items.map(...)
MapItems(items) == [i \in 1..Len(items) |-> MapItem(items[i])]

\* what the function returns once its axios.get has settled
YouTubeReturnValue(ax) ==
    IF ax.status = "rejected" THEN <<>>
    ELSE IF "items" \notin DOMAIN ax.data THEN <<>>
    ELSE IF \E i \in 1..Len(ax.data.items) : ItemThrows(ax.data.items[i]) THEN <<>>
    ELSE MapItems(ax.data.items)

-----------------------------------------------------------------------------
(* getWebResults                                                           *)

\* the URL of the axios.get
WebUrl(query) ==
    [base |-> "https://api.duckduckgo.com/", q |-> encodeURIComponent(query),
     format |-> "json"]

\* a filter that asks for a Text property, not for a non-empty one
TopicKept_AnyText(topic) ==
    /\ "FirstURL" \in DOMAIN topic /\ topic.FirstURL # ""
    /\ "Text" \in DOMAIN topic

\* topic.FirstURL && topic.Text
TopicKept(topic) ==
    /\ "FirstURL" \in DOMAIN topic /\ topic.FirstURL # ""
    /\ "Text" \in DOMAIN topic /\ topic.Text # <<>>

\* results.filter(...)
RECURSIVE FilterTopics(_)
FilterTopics(s) ==
    IF s = <<>> THEN <<>>
    ELSE IF TopicKept(Head(s)) THEN <<Head(s)>> \o FilterTopics(Tail(s))
    ELSE FilterTopics(Tail(s))

\* the map callback
MapTopic(topic) ==
    [title |-> IF FirstSegment(topic.Text) # <<>> THEN FirstSegment(topic.Text)
               ELSE topic.Text,
     description |-> topic.Text,
     url |-> topic.FirstURL]

\* response.data.RelatedTopics || []
RelatedTopicsOf(data) ==
    IF "RelatedTopics" \in DOMAIN data THEN data.RelatedTopics ELSE <<>>

\* results.filter(...).slice(0, 3).map(...)
ShapeTopics(results) ==
    LET kept == Slice(FilterTopics(results), 3)
    IN  [i \in 1..Len(kept) |-> MapTopic(kept[i])]

\* what the function returns once its axios.get has settled
WebReturnValue(ax) ==
    IF ax.status = "rejected" THEN <<>>
    ELSE ShapeTopics(RelatedTopicsOf(ax.data))

-----------------------------------------------------------------------------
(* app.post("/api/generate")                                               *)

\* a check for undefined only: an empty prompt passes
NoPrompt_MissingOnly(body) == "prompt" \notin DOMAIN body

\* !prompt, for `const { prompt } = req.body`
NoPrompt(body) == "prompt" \notin DOMAIN body \/ body.prompt = <<>>

\* the argument of openai.chat.completions.create
CompletionParams(prompt) ==
    [model |-> "gpt-4", messages |-> << [role |-> "user", content |-> prompt] >>]

\* aiResponse.value.choices[0] throws when value has no choices
ChoicesThrows(ai) == ai.status = "fulfilled" /\ "choices" \notin DOMAIN ai.value

\* aiResponse.value.choices[0]?.message?.content?.trim(), or null
AiResult(ai) ==
    IF ai.status # "fulfilled" THEN None
    ELSE IF ai.value.choices = <<>> THEN None
    ELSE IF "message" \notin DOMAIN ai.value.choices[1] THEN None
    ELSE IF "content" \notin DOMAIN ai.value.choices[1].message THEN None
    ELSE Some(Trim(ai.value.choices[1].message.content))

\* !aiResult
NoAiResult(r) == r = None \/ r[1] = <<>>

\* status === "fulfilled" ? value : []
ValueOrEmpty(p) == IF p.status = "fulfilled" THEN p.value ELSE <<>>

\* a fail-fast join (Promise.all): over at the first rejection
AllSettled_FailFast(ai, yt, web) ==
    \/ "rejected" \in {ai.status, yt.status, web.status}
    \/ {ai.status, yt.status, web.status} = {"fulfilled"}

\* Promise.allSettled resolves once none of its promises is pending
AllSettled(ai, yt, web) ==
    /\ ai.status \in {"fulfilled", "rejected"}
    /\ yt.status \in {"fulfilled", "rejected"}
    /\ web.status \in {"fulfilled", "rejected"}

\* a tail that tests `aiResult === ""` instead of `!aiResult`
Shape_StrictEmpty(ai, youtubeData, webData) ==
    IF ChoicesThrows(ai)
    THEN [status |-> 500,
          body |-> [error |-> "Failed to process request. Please try again later."]]
    ELSE IF AiResult(ai) # None /\ AiResult(ai)[1] = <<>>
    THEN [status |-> 500, body |-> [error |-> "Failed to retrieve AI response"]]
    ELSE [status |-> 200,
          body |-> [aiResponse |-> IF AiResult(ai) = None THEN <<>> ELSE AiResult(ai)[1],
                    youtubeResults |-> youtubeData,
                    webResults |-> webData]]

\* the handler's tail: the error response without an AI result, else the
\* aggregated response
Shape(ai, youtubeData, webData) ==
    IF ChoicesThrows(ai)
    THEN [status |-> 500,
          body |-> [error |-> "Failed to process request. Please try again later."]]
    ELSE IF NoAiResult(AiResult(ai))
    THEN [status |-> 500, body |-> [error |-> "Failed to retrieve AI response"]]
    ELSE [status |-> 200,
          body |-> [aiResponse |-> AiResult(ai)[1],
                    youtubeResults |-> youtubeData,
                    webResults |-> webData]]

\* a copy-paste slip: webData read from the video promise
Aggregate_CopyPaste(ai, yt, web) == Shape(ai, ValueOrEmpty(yt), ValueOrEmpty(yt))

\* the response computed from the three settled promises
Aggregate(ai, yt, web) == Shape(ai, ValueOrEmpty(yt), ValueOrEmpty(web))

\* an error branch without `return`: the handler goes on to respond again
Responses_NoReturn(ai, yt, web) ==
    IF Aggregate(ai, yt, web).status = 500
    THEN << Aggregate(ai, yt, web), Aggregate(ai, yt, web) >>
    ELSE << Aggregate(ai, yt, web) >>

\* the responses the handler sends after the await: one, every branch returns
Responses(ai, yt, web) == << Aggregate(ai, yt, web) >>

\* the two checks in the other order
Precheck_PromptFirst(client, body) ==
    IF NoPrompt(body) THEN 400
    ELSE IF ~client THEN 503
    ELSE 0

\* the checks before the calls: 503, 400, or 0 to go on
Precheck(client, body) ==
    IF ~client THEN 503
    ELSE IF NoPrompt(body) THEN 400
    ELSE 0

Idle == [status |-> "none"]
NoCalls == [ai |-> 0, yt |-> 0, web |-> 0]

\* getYouTubeResults up to its await: the axios.get, if the credential is set
IssuedYouTube(e, query) ==
    IF NoYouTubeKey(e) THEN Idle
    ELSE [status |-> "pending", params |-> YouTubeParams(e, query)]

\* the promise getYouTubeResults returns: without the credential it is
\* fulfilled with [] at once
StartedYouTube(e) ==
    IF NoYouTubeKey(e) THEN [status |-> "fulfilled", value |-> <<>>]
    ELSE [status |-> "pending"]

\* the outbound calls once the handler has built the allSettled array
IssuedCalls(e, c) ==
    [ai |-> c.ai + 1,
     yt |-> IF NoYouTubeKey(e) THEN c.yt ELSE c.yt + 1,
     web |-> c.web + 1]

Init ==
    /\ env \in Envs
    /\ openai \in BOOLEAN
    /\ pc = "idle"
    /\ req = <<>>
    /\ aiResponse = Idle
    /\ axiosYT = Idle
    /\ youtubeResults = Idle
    /\ axiosWeb = Idle
    /\ webResults = Idle
    /\ res = <<>>
    /\ calls = NoCalls

\* a request arrives and the handler runs to its first await or to its return
Generate(body) ==
    /\ pc = "idle"
    /\ req' = << [body |-> body] >>
    /\ IF Precheck(openai, body) = 503
       THEN /\ res' = << [status |-> 503,
                          body |-> [error |-> "OpenAI service is not available. Please check your configuration."]] >>
            /\ pc' = "done"
            /\ UNCHANGED <<aiResponse, axiosYT, youtubeResults, axiosWeb, webResults, calls>>
       ELSE IF Precheck(openai, body) = 400
       THEN /\ res' = << [status |-> 400, body |-> [error |-> "Prompt is required"]] >>
            /\ pc' = "done"
            /\ UNCHANGED <<aiResponse, axiosYT, youtubeResults, axiosWeb, webResults, calls>>
       ELSE /\ aiResponse' = [status |-> "pending", params |-> CompletionParams(body.prompt)]
            /\ axiosYT' = IssuedYouTube(env, body.prompt)
            /\ youtubeResults' = StartedYouTube(env)
            /\ axiosWeb' = [status |-> "pending", url |-> WebUrl(body.prompt)]
            /\ webResults' = [status |-> "pending"]
            /\ calls' = IssuedCalls(env, calls)
            /\ pc' = "awaiting"
            /\ res' = res
    /\ UNCHANGED <<env, openai>>

\* the completion service answers
CompletionFulfils(value) ==
    /\ aiResponse.status = "pending"
    /\ aiResponse' = [status |-> "fulfilled", value |-> value]
    /\ UNCHANGED <<env, openai, pc, req, axiosYT, youtubeResults, axiosWeb,
                   webResults, res, calls>>

\* the completion call fails
CompletionRejects ==
    /\ aiResponse.status = "pending"
    /\ aiResponse' = [status |-> "rejected"]
    /\ UNCHANGED <<env, openai, pc, req, axiosYT, youtubeResults, axiosWeb,
                   webResults, res, calls>>

\* the video service answers
YouTubeResolves(data) ==
    /\ axiosYT.status = "pending"
    /\ axiosYT' = [status |-> "resolved", params |-> axiosYT.params, data |-> data]
    /\ UNCHANGED <<env, openai, pc, req, aiResponse, youtubeResults, axiosWeb,
                   webResults, res, calls>>

\* the video search call fails
YouTubeRejects ==
    /\ axiosYT.status = "pending"
    /\ axiosYT' = [status |-> "rejected", params |-> axiosYT.params]
    /\ UNCHANGED <<env, openai, pc, req, aiResponse, youtubeResults, axiosWeb,
                   webResults, res, calls>>

\* getYouTubeResults resumes after its await and returns
YouTubeReturns ==
    /\ youtubeResults.status = "pending"
    /\ axiosYT.status \in {"resolved", "rejected"}
    /\ youtubeResults' = [status |-> "fulfilled", value |-> YouTubeReturnValue(axiosYT)]
    /\ UNCHANGED <<env, openai, pc, req, aiResponse, axiosYT, axiosWeb,
                   webResults, res, calls>>

\* the web service answers
WebResolves(data) ==
    /\ axiosWeb.status = "pending"
    /\ axiosWeb' = [status |-> "resolved", url |-> axiosWeb.url, data |-> data]
    /\ UNCHANGED <<env, openai, pc, req, aiResponse, axiosYT, youtubeResults,
                   webResults, res, calls>>

\* the web search call fails
WebRejects ==
    /\ axiosWeb.status = "pending"
    /\ axiosWeb' = [status |-> "rejected", url |-> axiosWeb.url]
    /\ UNCHANGED <<env, openai, pc, req, aiResponse, axiosYT, youtubeResults,
                   webResults, res, calls>>

\* getWebResults resumes after its await and returns
WebReturns ==
    /\ webResults.status = "pending"
    /\ axiosWeb.status \in {"resolved", "rejected"}
    /\ webResults' = [status |-> "fulfilled", value |-> WebReturnValue(axiosWeb)]
    /\ UNCHANGED <<env, openai, pc, req, aiResponse, axiosYT, youtubeResults,
                   axiosWeb, res, calls>>

\* the handler resumes after `await Promise.allSettled` and responds
Respond ==
    /\ pc = "awaiting"
    /\ AllSettled(aiResponse, youtubeResults, webResults)
    /\ res' = res \o Responses(aiResponse, youtubeResults, webResults)
    /\ pc' = "done"
    /\ UNCHANGED <<env, openai, req, aiResponse, axiosYT, youtubeResults,
                   axiosWeb, webResults, calls>>

\* the request is over; the server waits for the next one
Close ==
    /\ pc = "done"
    /\ pc' = "idle"
    /\ req' = <<>>
    /\ aiResponse' = Idle
    /\ axiosYT' = Idle
    /\ youtubeResults' = Idle
    /\ axiosWeb' = Idle
    /\ webResults' = Idle
    /\ res' = <<>>
    /\ calls' = NoCalls
    /\ UNCHANGED <<env, openai>>

Next ==
    \/ \E body \in Bodies : Generate(body)
    \/ \E value \in Completions : CompletionFulfils(value)
    \/ CompletionRejects
    \/ \E data \in YouTubeData : YouTubeResolves(data)
    \/ YouTubeRejects
    \/ YouTubeReturns
    \/ \E data \in WebAnswers : WebResolves(data)
    \/ WebRejects
    \/ WebReturns
    \/ Respond
    \/ Close

Spec == Init /\ [][Next]_vars

\* getWebResults alone, from the states in which the handler has just issued
\* the calls, against every answer of the web service
WebInit ==
    /\ env \in Envs
    /\ openai = TRUE
    /\ pc = "awaiting"
    /\ req = << [body |-> [prompt |-> <<"h", " ", "i">>]] >>
    /\ aiResponse = [status |-> "pending", params |-> CompletionParams(req[1].body.prompt)]
    /\ axiosYT = IssuedYouTube(env, req[1].body.prompt)
    /\ youtubeResults = StartedYouTube(env)
    /\ axiosWeb = [status |-> "pending", url |-> WebUrl(req[1].body.prompt)]
    /\ webResults = [status |-> "pending"]
    /\ res = <<>>
    /\ calls = IssuedCalls(env, NoCalls)

WebNext ==
    \/ \E data \in WebData : WebResolves(data)
    \/ WebRejects
    \/ WebReturns

WebSpec == WebInit /\ [][WebNext]_vars

\* the runtime resumes every continuation that can run, and (the premise of
\* the liveness claim) every call that was issued settles
SettleCompletion == CompletionRejects \/ \E value \in Completions : CompletionFulfils(value)
SettleYouTube == YouTubeRejects \/ \E data \in YouTubeData : YouTubeResolves(data)
SettleWeb == WebRejects \/ \E data \in WebAnswers : WebResolves(data)

FairSpec ==
    /\ Spec
    /\ WF_vars(SettleCompletion) /\ WF_vars(SettleYouTube) /\ WF_vars(SettleWeb)
    /\ WF_vars(YouTubeReturns) /\ WF_vars(WebReturns) /\ WF_vars(Respond)

-----------------------------------------------------------------------------
(* The properties, in the terms of the specification.                      *)

\* the prompt of the request is empty or missing
PromptAbsent == "prompt" \notin DOMAIN req[1].body \/ Len(req[1].body.prompt) = 0

\* no call to any of the three services has been issued for the request
NothingIssued ==
    /\ calls.ai = 0 /\ calls.yt = 0 /\ calls.web = 0
    /\ aiResponse.status = "none"
    /\ axiosYT.status = "none"
    /\ axiosWeb.status = "none"

\* the one response sent has status n
Answered(n) == Len(res) = 1 /\ res[1].status = n

\* the video credential is absent
KeyAbsent == "YOUTUBE_API_KEY" \notin DOMAIN env \/ Len(env.YOUTUBE_API_KEY) = 0

\* C1 as stated: a request with an empty or missing prompt is answered 400
\* with no outbound call, whether or not the completion client is configured
C1_BadRequestAlways ==
    (req # <<>> /\ PromptAbsent) => (Answered(400) /\ NothingIssued)

\* C1 amended: a request with an empty or missing prompt is answered with no
\* outbound call: 400 with a configured completion client, 503 without one
C1_BadRequestWhenConfigured ==
    (req # <<>> /\ PromptAbsent) =>
        /\ NothingIssued
        /\ openai => Answered(400)
        /\ ~openai => Answered(503)

C1_Witness ==
    /\ req # <<>> /\ "prompt" \in DOMAIN req[1].body /\ PromptAbsent
    /\ openai /\ Answered(400)

\* C2: with an unconfigured completion client every request, whatever its
\* prompt, is answered 503 and no outbound call is issued
C2_Unavailable ==
    (~openai /\ req # <<>>) => (Answered(503) /\ NothingIssued)

C2_Witness ==
    /\ ~openai /\ req # <<>> /\ ~PromptAbsent
    /\ Answered(503) /\ NothingIssued

\* the handler has responded to a request for which it issued the calls
Joined == pc = "done" /\ calls.ai > 0

\* the body of the response is an error message and nothing else
ErrorOnly == DOMAIN res[1].body = {"error"}

\* x is an array
IsArray(x) == DOMAIN x = 1..Len(x)

\* the completion object carries a message text
HasContent ==
    /\ aiResponse.status = "fulfilled"
    /\ "choices" \in DOMAIN aiResponse.value
    /\ Len(aiResponse.value.choices) > 0
    /\ "message" \in DOMAIN aiResponse.value.choices[1]
    /\ "content" \in DOMAIN aiResponse.value.choices[1].message

Content == aiResponse.value.choices[1].message.content

\* the completion call succeeded with a text that is not blank
HasText == HasContent /\ \E i \in 1..Len(Content) : Content[i] \notin WhiteSpace

\* t is s without its leading and trailing white space, s not blank
IsTrimOf(t, s) ==
    \E i \in 1..Len(s), j \in 1..Len(s) :
        /\ i <= j
        /\ t = SubSeq(s, i, j)
        /\ s[i] \notin WhiteSpace /\ s[j] \notin WhiteSpace
        /\ \A k \in 1..Len(s) : (k < i \/ k > j) => s[k] \in WhiteSpace

\* the video search, resp. the web search, failed
YouTubeFailed ==
    \/ axiosYT.status = "rejected"
    \/ /\ axiosYT.status = "resolved"
       /\ \/ "items" \notin DOMAIN axiosYT.data
          \/ \E i \in 1..Len(axiosYT.data.items) :
                 "snippet" \notin DOMAIN axiosYT.data.items[i]
WebFailed == axiosWeb.status = "rejected"

\* C3: when the completion call fails the response is 500 and carries neither
\* youtubeResults nor webResults, whatever the two searches returned
C3_CompletionFailure ==
    (Joined /\ aiResponse.status = "rejected") =>
        /\ Answered(500)
        /\ ErrorOnly
        /\ "youtubeResults" \notin DOMAIN res[1].body
        /\ "webResults" \notin DOMAIN res[1].body

C3_Witness ==
    /\ Joined /\ aiResponse.status = "rejected"
    /\ axiosYT.status = "resolved" /\ youtubeResults.value # <<>>
    /\ axiosWeb.status = "resolved" /\ webResults.value # <<>>
    /\ Answered(500)

\* C4: when the completion call succeeds with a text that is not blank the
\* response is 200 with exactly aiResponse, youtubeResults and webResults, both
\* lists arrays, and a failed search contributes the empty list
C4_Success ==
    (Joined /\ HasText) =>
        /\ Answered(200)
        /\ DOMAIN res[1].body = {"aiResponse", "youtubeResults", "webResults"}
        /\ IsArray(res[1].body.youtubeResults)
        /\ IsArray(res[1].body.webResults)
        /\ YouTubeFailed => res[1].body.youtubeResults = <<>>
        /\ WebFailed => res[1].body.webResults = <<>>

C4_Witness ==
    /\ Joined /\ HasText
    /\ axiosYT.status = "rejected" /\ axiosWeb.status = "rejected"
    /\ Answered(200)
    /\ res[1].body.youtubeResults = <<>> /\ res[1].body.webResults = <<>>

\* one of the three calls issued for the request has not reached a terminal state
SomePending ==
    \/ aiResponse.status = "pending"
    \/ axiosYT.status = "pending" \/ youtubeResults.status = "pending"
    \/ axiosWeb.status = "pending" \/ webResults.status = "pending"

\* C5: once the calls are issued no response is sent while one of them is
\* pending, whatever the order in which they settle
C5_NoEarlyResponse ==
    (calls.ai > 0 /\ SomePending) => res = <<>>

\* the completion call has already failed, a search is still pending
C5_Witness ==
    /\ calls.ai > 0 /\ aiResponse.status = "rejected"
    /\ axiosWeb.status = "pending" /\ youtubeResults.status = "fulfilled"
    /\ res = <<>>

\* C6: a completion whose text is blank after trimming, or that has no text,
\* is answered 500; otherwise aiResponse is the trimmed text
C6_TrimmedText ==
    (Joined /\ aiResponse.status = "fulfilled") =>
        IF HasText
        THEN Answered(200) /\ IsTrimOf(res[1].body.aiResponse, Content)
        ELSE Answered(500) /\ ErrorOnly

\* a text of white space only, both searches with results
C6_Witness ==
    /\ Joined /\ HasContent /\ Len(Content) > 0 /\ ~HasText
    /\ youtubeResults.value # <<>> /\ webResults.value # <<>>
    /\ Answered(500)

\* C7: without the video credential the video service is never called and
\* youtubeResults is the empty list
C7_NoKeyNoCall ==
    KeyAbsent =>
        /\ axiosYT.status = "none" /\ calls.yt = 0
        /\ youtubeResults.status # "none" =>
               youtubeResults = [status |-> "fulfilled", value |-> <<>>]
        /\ (res # <<>> /\ res[1].status = 200) => res[1].body.youtubeResults = <<>>

C7_Witness ==
    /\ KeyAbsent /\ Joined /\ Answered(200)
    /\ res[1].body.youtubeResults = <<>> /\ res[1].body.webResults # <<>>
    /\ calls.yt = 0

\* the web service has answered and getWebResults has returned
WebReturned == axiosWeb.status = "resolved" /\ webResults.status = "fulfilled"

\* the provider's related topics
Provided ==
    IF "RelatedTopics" \in DOMAIN axiosWeb.data THEN axiosWeb.data.RelatedTopics ELSE <<>>

\* the positions of the provider's entries that have a URL and a text
Complete ==
    { i \in 1..Len(Provided) :
        /\ "FirstURL" \in DOMAIN Provided[i] /\ Len(Provided[i].FirstURL) > 0
        /\ "Text" \in DOMAIN Provided[i] /\ Len(Provided[i].Text) > 0 }

\* the position of the k-th such entry
Nth(k) == CHOOSE i \in Complete : Cardinality({ j \in Complete : j < i }) = k - 1

\* C8: the web search client returns at most 3 entries, each with a non-empty
\* url and description: the first 3 of the provider's entries that have both
\* a URL and a text, in the provider's order
C8_WebResults ==
    WebReturned =>
        LET out == webResults.value
        IN  /\ Len(out) <= 3
            /\ Len(out) = IF Cardinality(Complete) < 3 THEN Cardinality(Complete) ELSE 3
            /\ \A k \in 1..Len(out) :
                   /\ out[k].url # "" /\ out[k].description # <<>>
                   /\ out[k].url = Provided[Nth(k)].FirstURL
                   /\ out[k].description = Provided[Nth(k)].Text

\* four entries with both fields and a gap between them
C8_Witness ==
    /\ WebReturned
    /\ Cardinality(Complete) > 3 /\ Cardinality(Complete) < Len(Provided)
    /\ 1 \notin Complete /\ Len(Provided) \in Complete
    /\ Len(webResults.value) = 3
    /\ webResults.value[1].url # webResults.value[2].url

\* C9 as stated: the video search client returns at most 3 result summaries,
\* whatever the provider's response contains
C9_AtMostThreeVideos ==
    youtubeResults.status = "fulfilled" => Len(youtubeResults.value) <= 3

\* C10: a request is answered exactly once, with 200, 400, 500 or 503, never
\* twice and never before the handler is through; each service is called at
\* most once; and when the calls settle the response is sent
C10_Statuses == {200, 400, 500, 503}

C10_OneResponse ==
    /\ [](/\ Len(res) <= 1
          /\ pc = "done" <=> Len(res) = 1
          /\ \A k \in 1..Len(res) : res[k].status \in C10_Statuses
          /\ calls.ai <= 1 /\ calls.yt <= 1 /\ calls.web <= 1)
    /\ (req # <<>>) ~> (pc = "done" /\ Len(res) = 1)

C10_Witness ==
    /\ pc = "done" /\ Len(res) = 1 /\ res[1].status = 500
    /\ calls = [ai |-> 1, yt |-> 1, web |-> 1]
    /\ aiResponse.status = "fulfilled"

====
